---- MODULE Spec2Model ----
(***************************************************************************)
(* Card authentication flow of the X1 wallet firmware (auth_card.c):       *)
(* the host-facing driver card_auth_handler, the request handlers it       *)
(* dispatches to, the query/response adapter, and the process-wide flow    *)
(* status cell.                                                            *)
(***************************************************************************)
EXTENDS Integers, Sequences, FiniteSets, TLC

(***************************************************************************)
(* Bounds of the model.                                                    *)
(***************************************************************************)
\* invocations of card_auth_handler in one behaviour
MaxSessions == 2
\* waits for a host message (get_events(EVENT_CONFIG_USB)) in one session
MaxWaits == 3
\* largest card index carried by an initiate request
MaxCardIndex == 2

(***************************************************************************)
(* Enumerations.                                                           *)
(***************************************************************************)
INIT == "INIT"
USER_CONFIRMED == "USER_CONFIRMED"
SERIAL_SIGNED == "SERIAL_SIGNED"
CHALLENGE_SIGNED == "CHALLENGE_SIGNED"
PAIRING_DONE == "PAIRING_DONE"

FlowStatuses == {INIT, USER_CONFIRMED, SERIAL_SIGNED, CHALLENGE_SIGNED, PAIRING_DONE}

\* manager_error_code_t
MANAGER_TASK_SUCCESS == "SUCCESS"
MANAGER_TASK_INVALID_ARGS == "INVALID_ARGS"
MANAGER_TASK_INVALID_STATE == "INVALID_STATE"
MANAGER_TASK_DECODING_FAILED == "DECODING_FAILED"
MANAGER_TASK_ENCODING_FAILED == "ENCODING_FAILED"
MANAGER_TASK_UNKNOWN_QUERY_REQUEST == "UNKNOWN_QUERY_REQUEST"
MANAGER_TASK_P0_ABORT_OCCURED == "P0_ABORT_OCCURED"

\* which_request of the auth_card query; REQUEST_NONE is the unset (zero) tag
REQUEST_NONE == "none"
INITIATE_TAG == "initiate"
CHALLENGE_TAG == "challenge"
RESULT_TAG == "result"

\* which_response of manager_auth_card_response_t; RESPONSE_NONE is zero
RESPONSE_NONE == "none"
SERIAL_SIGNATURE_TAG == "serial_signature"
CHALLENGE_SIGNATURE_TAG == "challenge_signature"
FLOW_COMPLETE_TAG == "flow_complete"

\* which_request of manager_query_t
MANAGER_QUERY_AUTH_CARD_TAG == "auth_card"
MANAGER_QUERY_OTHER_TAG == "other"

(***************************************************************************)
(* Requests, host messages and events.                                     *)
(***************************************************************************)
MkQuery(w, hci, ci, hpc, pc_, v) ==
  [which_request |-> w, has_card_index |-> hci, card_index |-> ci,
   has_pair_card |-> hpc, pair_card |-> pc_, verified |-> v]

InitiateQueries ==
  {MkQuery(INITIATE_TAG, FALSE, 0, hpc, p, FALSE) :
      hpc \in BOOLEAN, p \in BOOLEAN} \cup
  {MkQuery(INITIATE_TAG, TRUE, ci, hpc, p, FALSE) :
      ci \in 1..MaxCardIndex, hpc \in BOOLEAN, p \in BOOLEAN}

ChallengeQuery == MkQuery(CHALLENGE_TAG, FALSE, 0, FALSE, FALSE, FALSE)

ResultQuery(v) == MkQuery(RESULT_TAG, FALSE, 0, FALSE, FALSE, v)

UnsetQuery == MkQuery(REQUEST_NONE, FALSE, 0, FALSE, FALSE, FALSE)

Queries ==
  InitiateQueries \cup
  {ChallengeQuery, ResultQuery(TRUE), ResultQuery(FALSE), UnsetQuery}

\* a raw host message: whether its bytes parse, its top-level discriminant
\* and the auth_card request it carries
HostMsgs ==
  {[parses |-> FALSE, which_request |-> MANAGER_QUERY_OTHER_TAG, auth_card |-> UnsetQuery],
   [parses |-> TRUE, which_request |-> MANAGER_QUERY_OTHER_TAG, auth_card |-> UnsetQuery]} \cup
  {[parses |-> TRUE, which_request |-> MANAGER_QUERY_AUTH_CARD_TAG, auth_card |-> q] :
      q \in Queries}

NoMsg == [parses |-> FALSE, which_request |-> MANAGER_QUERY_OTHER_TAG, auth_card |-> UnsetQuery]

\* evt_status_t restricted to the fields the flow reads
EvtZero == [usb_flag |-> FALSE, p0_flag |-> FALSE, nfc_flag |-> FALSE, msg |-> NoMsg]
EvtP0 == [EvtZero EXCEPT !.p0_flag = TRUE]
EvtNfc == [EvtZero EXCEPT !.nfc_flag = TRUE]
EvtUsb(m) == [EvtZero EXCEPT !.usb_flag = TRUE, !.msg = m]

\* get_events(EVENT_CONFIG_NFC, timeout): a card event or an abort/timeout
NfcEvents == {EvtNfc, EvtP0}
\* get_events(EVENT_CONFIG_USB, timeout): a host message or an abort/timeout
UsbEvents == {EvtP0} \cup {EvtUsb(m) : m \in HostMsgs}

(***************************************************************************)
(* Session context.                                                        *)
(***************************************************************************)
ACCEPTABLE_CARDS_ALL == 15

encode_card_number(x) == (2 ^ ((x - 1) % 8)) % 256

Text(t, n) == [text |-> t, n |-> n]

CtxInit ==
  [acceptable_cards |-> ACCEPTABLE_CARDS_ALL, heading |-> Text("", 0),
   message |-> Text("", 0), pair_card_required |-> FALSE]

SIGN_SERIAL_BEEP_COUNT(pair_card_required) == IF pair_card_required THEN 3 ELSE 2

SIGN_CHALLENGE_BEEP_COUNT(pair_card_required) == IF pair_card_required THEN 2 ELSE 1

\* faulty variant: pair_card is read without looking at has_pair_card
prepare_card_auth_context_PairUnchecked(q) ==
  LET pair == q.pair_card IN
  [acceptable_cards |->
      IF q.has_card_index THEN encode_card_number(q.card_index)
      ELSE ACCEPTABLE_CARDS_ALL,
   heading |->
      IF q.has_card_index THEN Text("tap_card", q.card_index % 256)
      ELSE Text("tap_a_card", 0),
   pair_card_required |-> pair,
   message |-> Text("place_card_till_beep", SIGN_SERIAL_BEEP_COUNT(pair))]

prepare_card_auth_context(q) ==
  LET pair == IF q.has_pair_card THEN q.pair_card ELSE FALSE IN
  [acceptable_cards |->
      IF q.has_card_index THEN encode_card_number(q.card_index)
      ELSE ACCEPTABLE_CARDS_ALL,
   heading |->
      IF q.has_card_index THEN Text("tap_card", q.card_index % 256)
      ELSE Text("tap_a_card", 0),
   pair_card_required |-> pair,
   message |-> Text("place_card_till_beep", SIGN_SERIAL_BEEP_COUNT(pair))]

(***************************************************************************)
(* State.                                                                  *)
(***************************************************************************)
VARIABLES
  flow_status,        \* process-wide flow status cell (core_status)
  pc,                 \* position of card_auth_handler; "idle" = not running
  query,              \* auth_card_data.query.auth_card
  ctx,                \* auth_card_data.ctx
  resp,               \* resp.which_response
  evt_status,         \* evt_status of card_auth_handler
  nfc_status,         \* status of handle_sign_card_serial / handle_sign_challenge
  round,              \* which hardware round is in progress
  ret,                \* value returned by handle_auth_card_query
  usb_out,            \* responses handed to usb_send_msg in this session
  usb_event_pending,  \* the transport's pending USB event
  notice,             \* last notice shown by delay_scr_init
  send_ret,           \* value returned by the last send_auth_card_response
  nfc_tasks,          \* card-select tasks started in this session
  waits,              \* waits for a host message in this session
  hist,               \* flow statuses written in this session, in order
  disp,               \* the latest dispatch: request, status before, result
  failed,             \* a failure flow_complete was sent in this session
  p0_seen,            \* the wait for a host message returned abort/timeout
  inputs,             \* what the session consumed: requests, events, faults
  sessions,           \* invocations of card_auth_handler so far
  exit,               \* how the last invocation returned
  decode_ret,         \* value returned by the last decode_and_verify call
  entry_status,       \* flow status found by the last invocation
  \* ETH sign-message flow (sign_message_controller_b_eth)
  flow_active,        \* the sign-message flow is the active flow
  level_three,        \* flow_level.level_three
  wallet_credential_data, \* mnemonics, passphrase, password_single_hash
  input_text,         \* flow_level.screen_input.input_text
  rejects,            \* rejects sent to the host by comm_reject_request
  next_event_flag,    \* counter.next_event_flag
  back_from,          \* level_three at the latest back event
  \* wallet record under checksum verification
  wallet,             \* the Wallet instance passed to verify_checksum
  wallet_pc,          \* "call" before verify_checksum, "done" after
  checksum_ok,        \* value returned by verify_checksum
  wallet_info,        \* the Wallet.wallet_info byte the flag macros act on
  flag_prev,          \* wallet_info before the latest flag macro
  flag_op,            \* the latest flag macro applied
  \* one direct call of an engine handler
  call,               \* the handler called and its arguments
  call_out            \* what the call did and returned

authVars ==
  <<flow_status, pc, query, ctx, resp, evt_status, nfc_status, round, ret,
    usb_out, usb_event_pending, notice, send_ret, nfc_tasks, waits, hist,
    disp, failed, p0_seen, inputs, sessions, exit, decode_ret, entry_status>>

ethVars ==
  <<flow_active, level_three, wallet_credential_data, input_text, rejects,
    next_event_flag, back_from>>

walletVars ==
  <<wallet, wallet_pc, checksum_ok, wallet_info, flag_prev, flag_op>>

callVars == <<call, call_out>>

vars == <<authVars, ethVars, walletVars, callVars>>

\* the name under which an input is recorded in inputs
InputOfQuery(q) ==
  IF q.which_request = RESULT_TAG
  THEN (IF q.verified THEN "result_true" ELSE "result_false")
  ELSE q.which_request

InputOfEvent(e) ==
  IF e.p0_flag THEN "p0"
  ELSE IF e.nfc_flag THEN "card"
  ELSE IF e.msg.parses = FALSE THEN "unparsable"
  ELSE IF e.msg.which_request # MANAGER_QUERY_AUTH_CARD_TAG THEN "other_family"
  ELSE InputOfQuery(e.msg.auth_card)

DispNone == [request |-> REQUEST_NONE, verified |-> FALSE, status |-> INIT]

(***************************************************************************)
(* State of the parts of the firmware that are not running: no sign-message *)
(* flow is active and no wallet record is under verification.  The ETH     *)
(* flow-level values and the credential record are defined here because    *)
(* the initial state names them.                                           *)
(***************************************************************************)
SIGN_MSG_VERIFY_COIN_ETH == "SIGN_MSG_VERIFY_COIN_ETH"
SIGN_MSG_VERIFY_CONTRACT_ADDRESS_ETH == "SIGN_MSG_VERIFY_CONTRACT_ADDRESS_ETH"
SIGN_MSG_ENTER_PIN_ETH == "SIGN_MSG_ENTER_PIN_ETH"
SIGN_MSG_ENTER_PASSPHRASE_ETH == "SIGN_MSG_ENTER_PASSPHRASE_ETH"
SIGN_MSG_CONFIRM_PASSPHRASE_ETH == "SIGN_MSG_CONFIRM_PASSPHRASE_ETH"
SIGN_MSG_OTHER_ETH == "SIGN_MSG_OTHER_ETH"   \* any state of the default case
LEVEL_RESET == "LEVEL_RESET"                 \* level_three after a reset

\* A buffer is modelled by whether it holds data: Zeroed is the all-zero
\* buffer, Filled any other content.
Zeroed == "zeroed"
Filled == "filled"
BufferContents == {Zeroed, Filled}

CredentialsZeroed ==
  [mnemonics |-> Zeroed, passphrase |-> Zeroed, password_single_hash |-> Zeroed]

NoWallet == [null |-> TRUE, content |-> 0, checksum |-> 0]

EthIdle ==
  /\ flow_active = FALSE
  /\ level_three = LEVEL_RESET
  /\ wallet_credential_data = CredentialsZeroed
  /\ input_text = Zeroed
  /\ rejects = <<>>
  /\ next_event_flag = FALSE
  /\ back_from = "none"

\* no handler is being called directly
NoCall ==
  [handler |-> "none", data_null |-> FALSE, resp_null |-> FALSE,
   status |-> INIT, verified |-> FALSE]

NoOutcome ==
  [done |-> FALSE, ret |-> "none", fault |-> FALSE, read_request |-> FALSE,
   read_status |-> FALSE, hardware |-> FALSE]

CallIdle ==
  /\ call = NoCall
  /\ call_out = NoOutcome

FlagsIdle ==
  /\ wallet_info = 0
  /\ flag_prev = 0
  /\ flag_op = <<"none", "none">>

WalletIdle ==
  /\ wallet = NoWallet
  /\ wallet_pc = "none"
  /\ checksum_ok = FALSE
  /\ FlagsIdle

Init ==
  /\ flow_status = INIT
  /\ pc = "idle"
  /\ query = UnsetQuery
  /\ ctx = CtxInit
  /\ resp = RESPONSE_NONE
  /\ evt_status = EvtZero
  /\ nfc_status = EvtZero
  /\ round = "none"
  /\ ret = MANAGER_TASK_SUCCESS
  /\ usb_out = <<>>
  /\ usb_event_pending = FALSE
  /\ notice = "none"
  /\ send_ret = MANAGER_TASK_SUCCESS
  /\ nfc_tasks = 0
  /\ waits = 0
  /\ hist = <<>>
  /\ disp = DispNone
  /\ failed = FALSE
  /\ p0_seen = FALSE
  /\ inputs = <<>>
  /\ sessions = 0
  /\ exit = "none"
  /\ decode_ret = MANAGER_TASK_SUCCESS
  /\ entry_status = "none"
  /\ EthIdle
  /\ WalletIdle
  /\ CallIdle

(***************************************************************************)
(* card_auth_handler: entry.  The request arrives as a USB event; a first  *)
(* request that is not an initiate is ignored.                             *)
(***************************************************************************)
\* faulty variant: the flow status is reset before the request is looked at
card_auth_handler_ResetFirst(q) ==
  /\ pc = "idle"
  /\ sessions < MaxSessions
  /\ sessions' = sessions + 1
  /\ entry_status' = flow_status
  /\ usb_event_pending' = TRUE
  /\ IF q.which_request # INITIATE_TAG
     THEN /\ exit' = "ignored"
          /\ inputs' = <<InputOfQuery(q)>>
          /\ flow_status' = INIT
          /\ UNCHANGED <<pc, query, ctx, resp, evt_status,
                         nfc_status, round, ret, usb_out, notice, send_ret,
                         nfc_tasks, waits, hist, disp, failed, p0_seen>>
     ELSE /\ evt_status' = EvtZero
          /\ resp' = RESPONSE_NONE
          /\ ctx' = CtxInit
          /\ query' = q
          /\ flow_status' = INIT
          /\ pc' = "dispatch"
          /\ exit' = "running"
          /\ hist' = <<INIT>>
          /\ usb_out' = <<>>
          /\ nfc_tasks' = 0
          /\ waits' = 0
          /\ failed' = FALSE
          /\ p0_seen' = FALSE
          /\ inputs' = <<InputOfQuery(q)>>
          /\ disp' = DispNone
          /\ notice' = "none"
          /\ round' = "none"
          /\ UNCHANGED <<nfc_status, ret, send_ret>>
  /\ UNCHANGED <<decode_ret, ethVars, walletVars, callVars>>

\* faulty variant: the flow status of the previous session is kept
card_auth_handler_NoReset(q) ==
  /\ pc = "idle"
  /\ sessions < MaxSessions
  /\ sessions' = sessions + 1
  /\ entry_status' = flow_status
  /\ usb_event_pending' = TRUE
  /\ IF q.which_request # INITIATE_TAG
     THEN /\ exit' = "ignored"
          /\ inputs' = <<InputOfQuery(q)>>
          /\ UNCHANGED <<flow_status, pc, query, ctx, resp, evt_status,
                         nfc_status, round, ret, usb_out, notice, send_ret,
                         nfc_tasks, waits, hist, disp, failed, p0_seen>>
     ELSE /\ evt_status' = EvtZero
          /\ resp' = RESPONSE_NONE
          /\ ctx' = CtxInit
          /\ query' = q
          /\ UNCHANGED flow_status
          /\ pc' = "dispatch"
          /\ exit' = "running"
          /\ hist' = <<flow_status>>
          /\ usb_out' = <<>>
          /\ nfc_tasks' = 0
          /\ waits' = 0
          /\ failed' = FALSE
          /\ p0_seen' = FALSE
          /\ inputs' = <<InputOfQuery(q)>>
          /\ disp' = DispNone
          /\ notice' = "none"
          /\ round' = "none"
          /\ UNCHANGED <<nfc_status, ret, send_ret>>
  /\ UNCHANGED <<decode_ret, ethVars, walletVars, callVars>>

\* lines 517-538: the entry of card_auth_handler up to the first dispatch
card_auth_handler(q) ==
  /\ pc = "idle"
  /\ sessions < MaxSessions
  /\ sessions' = sessions + 1
  /\ entry_status' = flow_status
  /\ usb_event_pending' = TRUE
  /\ IF q.which_request # INITIATE_TAG
     THEN /\ exit' = "ignored"
          /\ inputs' = <<InputOfQuery(q)>>
          /\ UNCHANGED <<flow_status, pc, query, ctx, resp, evt_status,
                         nfc_status, round, ret, usb_out, notice, send_ret,
                         nfc_tasks, waits, hist, disp, failed, p0_seen>>
     ELSE /\ evt_status' = EvtZero
          /\ resp' = RESPONSE_NONE
          /\ ctx' = CtxInit
          /\ query' = q
          /\ flow_status' = INIT
          /\ pc' = "dispatch"
          /\ exit' = "running"
          /\ hist' = <<INIT>>
          /\ usb_out' = <<>>
          /\ nfc_tasks' = 0
          /\ waits' = 0
          /\ failed' = FALSE
          /\ p0_seen' = FALSE
          /\ inputs' = <<InputOfQuery(q)>>
          /\ disp' = DispNone
          /\ notice' = "none"
          /\ round' = "none"
          /\ UNCHANGED <<nfc_status, ret, send_ret>>
  /\ UNCHANGED <<decode_ret, ethVars, walletVars, callVars>>

(***************************************************************************)
(* Request handlers.  handle_auth_card_query switches on the request       *)
(* sub-type; each handler runs to its return or to its hardware wait.      *)
(***************************************************************************)
Dispatching(tag) ==
  /\ pc = "dispatch"
  /\ query.which_request = tag
  /\ disp' = [request |-> tag, verified |-> query.verified, status |-> flow_status]

\* the handler returns r to card_auth_handler
Return(r) ==
  /\ ret' = r
  /\ pc' = "ret_check"

\* handle_sign_card_serial up to its wait: show the instruction, enable the
\* card-select task and block in get_events(EVENT_CONFIG_NFC)
handle_sign_card_serial_start ==
  /\ nfc_tasks' = nfc_tasks + 1
  /\ round' = "serial"
  /\ pc' = "nfc_wait"

\* handle_sign_challenge up to its wait
handle_sign_challenge_start ==
  /\ nfc_tasks' = nfc_tasks + 1
  /\ round' = "challenge"
  /\ pc' = "nfc_wait"

\* faulty variant: the state check only refuses a finished flow
handle_auth_card_initiate_query_LooseCheck ==
  /\ Dispatching(INITIATE_TAG)
  /\ IF flow_status = PAIRING_DONE
     THEN /\ Return(MANAGER_TASK_INVALID_STATE)
          /\ UNCHANGED <<flow_status, ctx, hist, nfc_tasks, round>>
     ELSE /\ flow_status' = USER_CONFIRMED
          /\ hist' = Append(hist, USER_CONFIRMED)
          /\ ctx' = prepare_card_auth_context(query)
          /\ handle_sign_card_serial_start
          /\ UNCHANGED ret
  /\ UNCHANGED <<query, resp, evt_status, nfc_status, usb_out,
                 usb_event_pending, notice, send_ret, waits, failed, p0_seen,
                 inputs, sessions, exit>>
  /\ UNCHANGED <<decode_ret, entry_status, ethVars, walletVars, callVars>>


handle_auth_card_initiate_query ==
  /\ Dispatching(INITIATE_TAG)
  /\ IF flow_status # INIT
     THEN /\ Return(MANAGER_TASK_INVALID_STATE)
          /\ UNCHANGED <<flow_status, ctx, hist, nfc_tasks, round>>
     ELSE /\ flow_status' = USER_CONFIRMED
          /\ hist' = Append(hist, USER_CONFIRMED)
          /\ ctx' = prepare_card_auth_context(query)
          /\ handle_sign_card_serial_start
          /\ UNCHANGED ret
  /\ UNCHANGED <<query, resp, evt_status, nfc_status, usb_out,
                 usb_event_pending, notice, send_ret, waits, failed, p0_seen,
                 sessions, exit>>
  /\ UNCHANGED inputs
  /\ UNCHANGED <<decode_ret, entry_status, ethVars, walletVars, callVars>>

\* faulty variant: the state check accepts every status after the serial round
handle_auth_card_challenge_query_LooseCheck ==
  /\ Dispatching(CHALLENGE_TAG)
  /\ IF flow_status \in {INIT, USER_CONFIRMED}
     THEN /\ Return(MANAGER_TASK_INVALID_STATE)
          /\ UNCHANGED <<nfc_tasks, round>>
     ELSE /\ handle_sign_challenge_start
          /\ UNCHANGED ret
  /\ UNCHANGED <<flow_status, query, ctx, resp, evt_status, nfc_status,
                 usb_out, usb_event_pending, notice, send_ret, waits, hist,
                 failed, p0_seen, inputs, sessions, exit>>
  /\ UNCHANGED <<decode_ret, entry_status, ethVars, walletVars, callVars>>


handle_auth_card_challenge_query ==
  /\ Dispatching(CHALLENGE_TAG)
  /\ IF flow_status # SERIAL_SIGNED
     THEN /\ Return(MANAGER_TASK_INVALID_STATE)
          /\ UNCHANGED <<nfc_tasks, round>>
     ELSE /\ handle_sign_challenge_start
          /\ UNCHANGED ret
  /\ UNCHANGED <<flow_status, query, ctx, resp, evt_status, nfc_status,
                 usb_out, usb_event_pending, notice, send_ret, waits, hist,
                 failed, p0_seen, sessions, exit>>
  /\ UNCHANGED inputs
  /\ UNCHANGED <<decode_ret, entry_status, ethVars, walletVars, callVars>>

\* faulty variant: a failed result after the challenge round still pairs
ResultOutcome_FailurePairs(status, result, r, n) ==
  LET complete(st, text) ==
        [ret |-> MANAGER_TASK_SUCCESS, status |-> st,
         resp |-> FLOW_COMPLETE_TAG, notice |-> text]
      invalid ==
        [ret |-> MANAGER_TASK_INVALID_STATE, status |-> status,
         resp |-> r, notice |-> n]
  IN CASE status = SERIAL_SIGNED ->
            IF result = FALSE THEN complete(status, "failed") ELSE invalid
       [] status = CHALLENGE_SIGNED ->
            IF result = FALSE THEN complete(PAIRING_DONE, "failed")
            ELSE complete(PAIRING_DONE, "success")
       [] OTHER -> invalid

\* faulty variant: a positive result is accepted right after the serial round
ResultOutcome_EarlySuccess(status, result, r, n) ==
  LET complete(st, text) ==
        [ret |-> MANAGER_TASK_SUCCESS, status |-> st,
         resp |-> FLOW_COMPLETE_TAG, notice |-> text]
      invalid ==
        [ret |-> MANAGER_TASK_INVALID_STATE, status |-> status,
         resp |-> r, notice |-> n]
  IN CASE status \in {SERIAL_SIGNED, CHALLENGE_SIGNED} ->
            IF result = FALSE THEN complete(status, "failed")
            ELSE complete(PAIRING_DONE, "success")
       [] OTHER -> invalid

\* the switch of handle_auth_card_result_query on the flow status: the
\* return code, the new flow status, the response and the notice shown
ResultOutcome(status, result, r, n) ==
  LET complete(st, text) ==
        [ret |-> MANAGER_TASK_SUCCESS, status |-> st,
         resp |-> FLOW_COMPLETE_TAG, notice |-> text]
      invalid ==
        [ret |-> MANAGER_TASK_INVALID_STATE, status |-> status,
         resp |-> r, notice |-> n]
  IN CASE status = SERIAL_SIGNED ->
            IF result = FALSE THEN complete(status, "failed") ELSE invalid
       [] status = CHALLENGE_SIGNED ->
            IF result = FALSE THEN complete(status, "failed")
            ELSE complete(PAIRING_DONE, "success")
       [] OTHER -> invalid

handle_auth_card_result_query ==
  /\ Dispatching(RESULT_TAG)
  /\ LET o == ResultOutcome(flow_status, query.verified, resp, notice) IN
       /\ Return(o.ret)
       /\ flow_status' = o.status
       /\ hist' = IF o.status # flow_status THEN Append(hist, o.status) ELSE hist
       /\ resp' = o.resp
       /\ notice' = o.notice
  /\ UNCHANGED <<query, ctx, evt_status, nfc_status, round, usb_out,
                 usb_event_pending, send_ret, nfc_tasks, waits, failed,
                 p0_seen, sessions, exit>>
  /\ UNCHANGED inputs
  /\ UNCHANGED <<decode_ret, entry_status, ethVars, walletVars, callVars>>

\* default branch of handle_auth_card_query: the sub-type is unset
handle_auth_card_query_default ==
  /\ pc = "dispatch"
  /\ query.which_request \notin {INITIATE_TAG, CHALLENGE_TAG, RESULT_TAG}
  /\ disp' = [request |-> query.which_request, verified |-> query.verified,
              status |-> flow_status]
  /\ Return(MANAGER_TASK_UNKNOWN_QUERY_REQUEST)
  /\ UNCHANGED <<flow_status, query, ctx, resp, evt_status, nfc_status, round,
                 usb_out, usb_event_pending, notice, send_ret, nfc_tasks,
                 waits, hist, failed, p0_seen, sessions, exit>>
  /\ UNCHANGED inputs
  /\ UNCHANGED <<decode_ret, entry_status, ethVars, walletVars, callVars>>

handle_auth_card_query ==
  \/ handle_auth_card_initiate_query
  \/ handle_auth_card_challenge_query
  \/ handle_auth_card_result_query
  \/ handle_auth_card_query_default

(***************************************************************************)
(* Hardware rounds: the wait for a card event and what follows it.         *)
(***************************************************************************)
get_events_nfc(e) ==
  /\ pc = "nfc_wait"
  /\ nfc_status' = e
  /\ inputs' = Append(inputs, InputOfEvent(e))
  /\ pc' = "nfc_ret"
  /\ UNCHANGED <<flow_status, query, ctx, resp, evt_status, round, ret,
                 usb_out, usb_event_pending, notice, send_ret, nfc_tasks,
                 waits, hist, disp, failed, p0_seen, sessions, exit>>
  /\ UNCHANGED <<decode_ret, entry_status, ethVars, walletVars, callVars>>

\* faulty variant: the serial signature is produced without recording
\* SERIAL_SIGNED in the flow status
handle_sign_card_serial_NoStatus ==
  /\ pc = "nfc_ret"
  /\ round = "serial"
  /\ IF nfc_status.p0_flag
     THEN /\ Return(MANAGER_TASK_P0_ABORT_OCCURED)
          /\ UNCHANGED <<ctx, resp>>
     ELSE /\ ctx' = [ctx EXCEPT !.message =
                       Text("place_card_till_beep",
                            SIGN_CHALLENGE_BEEP_COUNT(ctx.pair_card_required))]
          /\ resp' = SERIAL_SIGNATURE_TAG
          /\ Return(MANAGER_TASK_SUCCESS)
  /\ round' = "none"
  /\ UNCHANGED <<flow_status, hist, query, evt_status, nfc_status, usb_out,
                 usb_event_pending, notice, send_ret, nfc_tasks, waits, disp,
                 failed, p0_seen, inputs, sessions, exit>>
  /\ UNCHANGED <<decode_ret, entry_status, ethVars, walletVars, callVars>>

\* faulty variant: the flow status is written before the abort is checked
handle_sign_card_serial_StatusBeforeAbort ==
  /\ pc = "nfc_ret"
  /\ round = "serial"
  /\ flow_status' = SERIAL_SIGNED
  /\ hist' = Append(hist, SERIAL_SIGNED)
  /\ IF nfc_status.p0_flag
     THEN /\ Return(MANAGER_TASK_P0_ABORT_OCCURED)
          /\ UNCHANGED <<ctx, resp>>
     ELSE /\ ctx' = [ctx EXCEPT !.message =
                       Text("place_card_till_beep",
                            SIGN_CHALLENGE_BEEP_COUNT(ctx.pair_card_required))]
          /\ resp' = SERIAL_SIGNATURE_TAG
          /\ Return(MANAGER_TASK_SUCCESS)
  /\ round' = "none"
  /\ UNCHANGED <<query, evt_status, nfc_status, usb_out, usb_event_pending,
                 notice, send_ret, nfc_tasks, waits, disp, failed, p0_seen,
                 inputs, sessions, exit>>
  /\ UNCHANGED <<decode_ret, entry_status, ethVars, walletVars, callVars>>


handle_sign_card_serial ==
  /\ pc = "nfc_ret"
  /\ round = "serial"
  /\ IF nfc_status.p0_flag
     THEN /\ Return(MANAGER_TASK_P0_ABORT_OCCURED)
          /\ UNCHANGED <<flow_status, hist, ctx, resp>>
     ELSE /\ flow_status' = SERIAL_SIGNED
          /\ hist' = Append(hist, SERIAL_SIGNED)
          /\ ctx' = [ctx EXCEPT !.message =
                       Text("place_card_till_beep",
                            SIGN_CHALLENGE_BEEP_COUNT(ctx.pair_card_required))]
          /\ resp' = SERIAL_SIGNATURE_TAG
          /\ Return(MANAGER_TASK_SUCCESS)
  /\ round' = "none"
  /\ UNCHANGED <<query, evt_status, nfc_status, usb_out, usb_event_pending,
                 notice, send_ret, nfc_tasks, waits, disp, failed, p0_seen,
                 sessions, exit>>
  /\ UNCHANGED inputs
  /\ UNCHANGED <<decode_ret, entry_status, ethVars, walletVars, callVars>>

\* faulty variant: the challenge round answers with the serial-signature tag
handle_sign_challenge_WrongTag ==
  /\ pc = "nfc_ret"
  /\ round = "challenge"
  /\ IF nfc_status.p0_flag
     THEN /\ Return(MANAGER_TASK_P0_ABORT_OCCURED)
          /\ UNCHANGED <<flow_status, hist, ctx, resp>>
     ELSE /\ flow_status' = CHALLENGE_SIGNED
          /\ hist' = Append(hist, CHALLENGE_SIGNED)
          /\ ctx' = [ctx EXCEPT !.message =
                       IF ctx.pair_card_required
                       THEN Text("place_card_till_beep", 1)
                       ELSE Text("...", 0)]
          /\ resp' = SERIAL_SIGNATURE_TAG
          /\ Return(MANAGER_TASK_SUCCESS)
  /\ round' = "none"
  /\ UNCHANGED <<query, evt_status, nfc_status, usb_out, usb_event_pending,
                 notice, send_ret, nfc_tasks, waits, disp, failed, p0_seen,
                 inputs, sessions, exit>>
  /\ UNCHANGED <<decode_ret, entry_status, ethVars, walletVars, callVars>>


handle_sign_challenge ==
  /\ pc = "nfc_ret"
  /\ round = "challenge"
  /\ IF nfc_status.p0_flag
     THEN /\ Return(MANAGER_TASK_P0_ABORT_OCCURED)
          /\ UNCHANGED <<flow_status, hist, ctx, resp>>
     ELSE /\ flow_status' = CHALLENGE_SIGNED
          /\ hist' = Append(hist, CHALLENGE_SIGNED)
          /\ ctx' = [ctx EXCEPT !.message =
                       IF ctx.pair_card_required
                       THEN Text("place_card_till_beep", 1)
                       ELSE Text("...", 0)]
          /\ resp' = CHALLENGE_SIGNATURE_TAG
          /\ Return(MANAGER_TASK_SUCCESS)
  /\ round' = "none"
  /\ UNCHANGED <<query, evt_status, nfc_status, usb_out, usb_event_pending,
                 notice, send_ret, nfc_tasks, waits, disp, failed, p0_seen,
                 sessions, exit>>
  /\ UNCHANGED inputs
  /\ UNCHANGED <<decode_ret, entry_status, ethVars, walletVars, callVars>>

(***************************************************************************)
(* Query/response adapter.                                                 *)
(***************************************************************************)
\* faulty variant: the message is decoded even when the USB flag is not set
decode_and_verify_auth_card_query_if_usb_evt_FlagIgnored(evt, query_out) ==
  IF evt.msg.parses = FALSE
  THEN [ret |-> MANAGER_TASK_DECODING_FAILED, query |-> query_out]
  ELSE IF evt.msg.which_request # MANAGER_QUERY_AUTH_CARD_TAG
  THEN [ret |-> MANAGER_TASK_UNKNOWN_QUERY_REQUEST, query |-> query_out]
  ELSE [ret |-> MANAGER_TASK_SUCCESS, query |-> evt.msg.auth_card]

\* faulty variant: the decoded query is copied out before its family is
\* checked
decode_and_verify_auth_card_query_if_usb_evt_CopyFirst(evt, query_out) ==
  IF evt.usb_flag = FALSE
  THEN [ret |-> MANAGER_TASK_SUCCESS, query |-> query_out]
  ELSE IF evt.msg.parses = FALSE
  THEN [ret |-> MANAGER_TASK_DECODING_FAILED, query |-> query_out]
  ELSE IF evt.msg.which_request # MANAGER_QUERY_AUTH_CARD_TAG
  THEN [ret |-> MANAGER_TASK_UNKNOWN_QUERY_REQUEST, query |-> evt.msg.auth_card]
  ELSE [ret |-> MANAGER_TASK_SUCCESS, query |-> evt.msg.auth_card]

\* the return code and the caller's query object after the call
decode_and_verify_auth_card_query_if_usb_evt(evt, query_out) ==
  IF evt.usb_flag = FALSE
  THEN [ret |-> MANAGER_TASK_SUCCESS, query |-> query_out]
  ELSE IF evt.msg.parses = FALSE
  THEN [ret |-> MANAGER_TASK_DECODING_FAILED, query |-> query_out]
  ELSE IF evt.msg.which_request # MANAGER_QUERY_AUTH_CARD_TAG
  THEN [ret |-> MANAGER_TASK_UNKNOWN_QUERY_REQUEST, query |-> query_out]
  ELSE [ret |-> MANAGER_TASK_SUCCESS, query |-> evt.msg.auth_card]

\* a null response pointer
NULL_RESPONSE == "null"

\* faulty variant: the buffer is handed to usb_send_msg before the result of
\* the encoder is checked
send_auth_card_response_SendThenCheck(r, encodes) ==
  IF r = NULL_RESPONSE \/ r = RESPONSE_NONE
  THEN [ret |-> MANAGER_TASK_INVALID_ARGS, out |-> <<>>]
  ELSE IF encodes = FALSE
  THEN [ret |-> MANAGER_TASK_ENCODING_FAILED, out |-> <<r>>]
  ELSE [ret |-> MANAGER_TASK_SUCCESS, out |-> <<r>>]

\* the return code and what is handed to usb_send_msg; encodes tells
\* whether encode_manager_result succeeds
send_auth_card_response(r, encodes) ==
  IF r = NULL_RESPONSE \/ r = RESPONSE_NONE
  THEN [ret |-> MANAGER_TASK_INVALID_ARGS, out |-> <<>>]
  ELSE IF encodes = FALSE
  THEN [ret |-> MANAGER_TASK_ENCODING_FAILED, out |-> <<>>]
  ELSE [ret |-> MANAGER_TASK_SUCCESS, out |-> <<r>>]

(***************************************************************************)
(* card_auth_handler: the loop.                                            *)
(***************************************************************************)
\* the handler returns to its caller
Leave(how) ==
  /\ pc' = "idle"
  /\ exit' = how

\* faulty variant: a failed dispatch waits for the next request instead of
\* returning
CheckDispatchResult_Retry ==
  /\ pc = "ret_check"
  /\ IF ret # MANAGER_TASK_SUCCESS
     THEN /\ usb_event_pending' = FALSE
          /\ pc' = "usb_wait"
          /\ UNCHANGED exit
     ELSE /\ pc' = "send"
          /\ UNCHANGED <<usb_event_pending, exit>>
  /\ UNCHANGED <<flow_status, query, ctx, resp, evt_status, nfc_status, round,
                 ret, usb_out, notice, send_ret, nfc_tasks, waits, hist, disp,
                 failed, p0_seen, sessions>>
  /\ UNCHANGED inputs
  /\ UNCHANGED <<decode_ret, entry_status, ethVars, walletVars, callVars>>

\* lines 542-546: a non-success dispatch clears the USB event and returns
CheckDispatchResult ==
  /\ pc = "ret_check"
  /\ IF ret # MANAGER_TASK_SUCCESS
     THEN /\ usb_event_pending' = FALSE
          /\ Leave("dispatch_error")
     ELSE /\ pc' = "send"
          /\ UNCHANGED <<usb_event_pending, exit>>
  /\ UNCHANGED <<flow_status, query, ctx, resp, evt_status, nfc_status, round,
                 ret, usb_out, notice, send_ret, nfc_tasks, waits, hist, disp,
                 failed, p0_seen, sessions>>
  /\ UNCHANGED inputs
  /\ UNCHANGED <<decode_ret, entry_status, ethVars, walletVars, callVars>>

\* lines 548-551: send the produced response, if any, and clear it
SendResponse(encodes) ==
  /\ pc = "send"
  /\ IF resp # RESPONSE_NONE
     THEN LET s == send_auth_card_response(resp, encodes) IN
            /\ usb_out' = usb_out \o s.out
            /\ send_ret' = s.ret
            /\ failed' = (failed \/ (s.out # <<>> /\ resp = FLOW_COMPLETE_TAG
                                      /\ notice = "failed"))
            /\ resp' = RESPONSE_NONE
            /\ inputs' = IF s.ret = MANAGER_TASK_ENCODING_FAILED
                          THEN Append(inputs, "encode_failed") ELSE inputs
     ELSE UNCHANGED <<usb_out, send_ret, failed, resp, inputs>>
  /\ pc' = "done_check"
  /\ UNCHANGED <<flow_status, query, ctx, evt_status, nfc_status, round, ret,
                 usb_event_pending, notice, nfc_tasks, waits, hist, disp,
                 p0_seen, sessions, exit>>
  /\ UNCHANGED <<decode_ret, entry_status, ethVars, walletVars, callVars>>

\* faulty variant: the stop test is missing and the loop condition is relied on
CheckPairingDone_NoStop ==
  /\ pc = "done_check"
  /\ pc' = "usb_wait"
  /\ UNCHANGED <<flow_status, query, ctx, resp, evt_status, nfc_status, round,
                 ret, usb_out, usb_event_pending, notice, send_ret, nfc_tasks,
                 waits, hist, disp, failed, p0_seen, inputs, sessions, exit>>
  /\ UNCHANGED <<decode_ret, entry_status, ethVars, walletVars, callVars>>

\* lines 553-556: stop once the flow reached PAIRING_DONE
CheckPairingDone ==
  /\ pc = "done_check"
  /\ IF flow_status = PAIRING_DONE
     THEN Leave("pairing_done")
     ELSE /\ pc' = "usb_wait"
          /\ UNCHANGED exit
  /\ UNCHANGED <<flow_status, query, ctx, resp, evt_status, nfc_status, round,
                 ret, usb_out, usb_event_pending, notice, send_ret, nfc_tasks,
                 waits, hist, disp, failed, p0_seen, sessions>>
  /\ UNCHANGED inputs
  /\ UNCHANGED <<decode_ret, entry_status, ethVars, walletVars, callVars>>

\* line 558: block for the next host message or an abort/timeout
get_events_usb(e) ==
  /\ pc = "usb_wait"
  /\ waits < MaxWaits
  /\ waits' = waits + 1
  /\ evt_status' = e
  /\ usb_event_pending' = (usb_event_pending \/ e.usb_flag)
  /\ p0_seen' = (p0_seen \/ e.p0_flag)
  /\ inputs' = Append(inputs, InputOfEvent(e))
  /\ pc' = "decode"
  /\ UNCHANGED <<flow_status, query, ctx, resp, nfc_status, round, ret,
                 usb_out, notice, send_ret, nfc_tasks, hist, disp, failed,
                 sessions, exit>>
  /\ UNCHANGED <<decode_ret, entry_status, ethVars, walletVars, callVars>>

\* lines 560-565: decode and validate the message, if one arrived
DecodeNextQuery ==
  /\ pc = "decode"
  /\ LET d == decode_and_verify_auth_card_query_if_usb_evt(evt_status, query) IN
       /\ decode_ret' = d.ret
       /\ query' = d.query
       /\ IF d.ret # MANAGER_TASK_SUCCESS
          THEN /\ usb_event_pending' = FALSE
               /\ Leave("decode_error")
          ELSE /\ pc' = "while_check"
               /\ UNCHANGED <<usb_event_pending, exit>>
  /\ UNCHANGED <<flow_status, ctx, resp, evt_status, nfc_status, round, ret,
                 usb_out, notice, send_ret, nfc_tasks, waits, hist, disp,
                 failed, p0_seen, sessions>>
  /\ UNCHANGED inputs
  /\ UNCHANGED <<entry_status, ethVars, walletVars, callVars>>

\* lines 567-571: the loop condition
LoopCondition(p0_flag, status) ==
  p0_flag = FALSE \/ status # PAIRING_DONE

CheckLoopCondition ==
  /\ pc = "while_check"
  /\ IF LoopCondition(evt_status.p0_flag, flow_status)
     THEN /\ pc' = "dispatch"
          /\ UNCHANGED exit
     ELSE Leave("p0_abort")
  /\ UNCHANGED <<flow_status, query, ctx, resp, evt_status, nfc_status, round,
                 ret, usb_out, usb_event_pending, notice, send_ret, nfc_tasks,
                 waits, hist, disp, failed, p0_seen, sessions>>
  /\ UNCHANGED inputs
  /\ UNCHANGED <<decode_ret, entry_status, ethVars, walletVars, callVars>>

Next ==
  \/ \E q \in Queries : card_auth_handler(q)
  \/ handle_auth_card_query
  \/ \E e \in NfcEvents : get_events_nfc(e)
  \/ handle_sign_card_serial
  \/ handle_sign_challenge
  \/ CheckDispatchResult
  \/ \E encodes \in BOOLEAN : SendResponse(encodes)
  \/ CheckPairingDone
  \/ \E e \in UsbEvents : get_events_usb(e)
  \/ DecodeNextQuery
  \/ CheckLoopCondition

Spec == Init /\ [][Next]_vars

(***************************************************************************)
(* Termination.  The host sends finitely many messages (at most MaxWaits   *)
(* waits deliver one), but an inactivity timeout can end every wait, and   *)
(* every wait and every step of the program eventually happens.  The logs  *)
(* kept for the other properties are cut at MaxLog entries here.           *)
(***************************************************************************)
MaxLog == MaxWaits + 3

Logged(log, x) == IF Len(log) < MaxLog THEN Append(log, x) ELSE log

\* get_events(EVENT_CONFIG_USB, timeout) with a host that has gone silent
get_events_usb_silent_host(e) ==
  /\ pc = "usb_wait"
  /\ waits < MaxWaits \/ e = EvtP0
  /\ waits' = IF waits < MaxWaits THEN waits + 1 ELSE waits
  /\ evt_status' = e
  /\ usb_event_pending' = (usb_event_pending \/ e.usb_flag)
  /\ p0_seen' = (p0_seen \/ e.p0_flag)
  /\ inputs' = Logged(inputs, InputOfEvent(e))
  /\ pc' = "decode"
  /\ UNCHANGED <<flow_status, query, ctx, resp, nfc_status, round, ret,
                 usb_out, notice, send_ret, nfc_tasks, hist, disp, failed,
                 sessions, exit>>
  /\ UNCHANGED <<decode_ret, entry_status, ethVars, walletVars, callVars>>

\* lines 548-551, with the transport log and the input log kept finite
SendResponseLogged(encodes) ==
  /\ pc = "send"
  /\ IF resp # RESPONSE_NONE
     THEN LET s == send_auth_card_response(resp, encodes) IN
            /\ usb_out' = IF s.out = <<>> THEN usb_out
                           ELSE Logged(usb_out, s.out[1])
            /\ send_ret' = s.ret
            /\ failed' = (failed \/ (s.out # <<>> /\ resp = FLOW_COMPLETE_TAG
                                      /\ notice = "failed"))
            /\ resp' = RESPONSE_NONE
            /\ inputs' = IF s.ret = MANAGER_TASK_ENCODING_FAILED
                          THEN Logged(inputs, "encode_failed") ELSE inputs
     ELSE UNCHANGED <<usb_out, send_ret, failed, resp, inputs>>
  /\ pc' = "done_check"
  /\ UNCHANGED <<flow_status, query, ctx, evt_status, nfc_status, round, ret,
                 usb_event_pending, notice, nfc_tasks, waits, hist, disp,
                 p0_seen, sessions, exit>>
  /\ UNCHANGED <<decode_ret, entry_status, ethVars, walletVars, callVars>>

NextLive ==
  \/ \E q \in Queries : card_auth_handler(q)
  \/ handle_auth_card_query
  \/ \E e \in NfcEvents : get_events_nfc(e)
  \/ handle_sign_card_serial
  \/ handle_sign_challenge
  \/ CheckDispatchResult
  \/ \E encodes \in BOOLEAN : SendResponseLogged(encodes)
  \/ CheckPairingDone
  \/ \E e \in UsbEvents : get_events_usb_silent_host(e)
  \/ DecodeNextQuery
  \/ CheckLoopCondition

SpecLive == Init /\ [][NextLive]_vars /\ WF_vars(NextLive)

(***************************************************************************)
(* The handlers are global functions: a second specification starts with   *)
(* handle_auth_card_query about to be called with any request in any flow  *)
(* status and any session context, and continues as the program does.      *)
(***************************************************************************)
Contexts ==
  {CtxInit} \cup {prepare_card_auth_context(q) : q \in InitiateQueries}

InitHandlers ==
  /\ flow_status \in FlowStatuses
  /\ pc = "dispatch"
  /\ query \in Queries
  /\ ctx \in Contexts
  /\ resp = RESPONSE_NONE
  /\ evt_status = EvtZero
  /\ nfc_status = EvtZero
  /\ round = "none"
  /\ ret = MANAGER_TASK_SUCCESS
  /\ usb_out = <<>>
  /\ usb_event_pending = TRUE
  /\ notice = "none"
  /\ send_ret = MANAGER_TASK_SUCCESS
  /\ nfc_tasks = 0
  /\ waits = 0
  /\ hist = <<flow_status>>
  /\ disp = DispNone
  /\ failed = FALSE
  /\ p0_seen = FALSE
  /\ inputs = <<InputOfQuery(query)>>
  /\ sessions = MaxSessions - 1
  /\ exit = "running"
  /\ decode_ret = MANAGER_TASK_SUCCESS
  /\ entry_status = flow_status
  /\ EthIdle
  /\ WalletIdle
  /\ CallIdle

SpecHandlers == InitHandlers /\ [][Next]_vars

(***************************************************************************)
(* send_auth_card_response on its own: called with any response, null     *)
(* included, after the transport has carried any short run of responses.   *)
(***************************************************************************)
MaxSent == 2

ResponseTags ==
  {SERIAL_SIGNATURE_TAG, CHALLENGE_SIGNATURE_TAG, FLOW_COMPLETE_TAG}

SentBefore ==
  UNION {[1..n -> ResponseTags] : n \in 0..MaxSent}

InitSend ==
  /\ flow_status = INIT
  /\ pc = "send_call"
  /\ query = UnsetQuery
  /\ ctx = CtxInit
  /\ resp \in {NULL_RESPONSE, RESPONSE_NONE} \cup ResponseTags
  /\ evt_status = EvtZero
  /\ nfc_status = EvtZero
  /\ round = "none"
  /\ ret = MANAGER_TASK_SUCCESS
  /\ usb_out \in SentBefore
  /\ usb_event_pending = FALSE
  /\ notice = "none"
  /\ send_ret = MANAGER_TASK_SUCCESS
  /\ nfc_tasks = 0
  /\ waits = 0
  /\ hist = <<>>
  /\ disp = DispNone
  /\ failed = FALSE
  /\ p0_seen = FALSE
  /\ inputs = <<>>
  /\ sessions = 0
  /\ exit = "none"
  /\ decode_ret = MANAGER_TASK_SUCCESS
  /\ entry_status = "none"
  /\ EthIdle
  /\ WalletIdle
  /\ CallIdle

SendCall(encodes) ==
  /\ pc = "send_call"
  /\ LET s == send_auth_card_response(resp, encodes) IN
       /\ send_ret' = s.ret
       /\ usb_out' = usb_out \o s.out
  /\ inputs' = <<IF encodes THEN "encode_ok" ELSE "encode_failed">>
  /\ pc' = "send_done"
  /\ UNCHANGED <<flow_status, query, ctx, resp, evt_status, nfc_status, round,
                 ret, usb_event_pending, notice, nfc_tasks, waits, hist, disp,
                 failed, p0_seen, sessions, exit, decode_ret, entry_status>>
  /\ UNCHANGED <<ethVars, walletVars, callVars>>

NextSend == \E encodes \in BOOLEAN : SendCall(encodes)

SpecSend == InitSend /\ [][NextSend]_vars

(***************************************************************************)
(* ETH sign-message flow: the back-event controller.                       *)
(* sign_message_controller_b_eth is called with the flow at any level-three *)
(* state, any content of the credential record and of the input text.      *)
(***************************************************************************)
\* no card authentication is running
AuthIdle ==
  /\ flow_status = INIT
  /\ pc = "idle"
  /\ query = UnsetQuery
  /\ ctx = CtxInit
  /\ resp = RESPONSE_NONE
  /\ evt_status = EvtZero
  /\ nfc_status = EvtZero
  /\ round = "none"
  /\ ret = MANAGER_TASK_SUCCESS
  /\ usb_out = <<>>
  /\ usb_event_pending = FALSE
  /\ notice = "none"
  /\ send_ret = MANAGER_TASK_SUCCESS
  /\ nfc_tasks = 0
  /\ waits = 0
  /\ hist = <<>>
  /\ disp = DispNone
  /\ failed = FALSE
  /\ p0_seen = FALSE
  /\ inputs = <<>>
  /\ sessions = 0
  /\ exit = "none"
  /\ decode_ret = MANAGER_TASK_SUCCESS
  /\ entry_status = "none"

SignMsgLevels ==
  {SIGN_MSG_VERIFY_COIN_ETH, SIGN_MSG_VERIFY_CONTRACT_ADDRESS_ETH,
   SIGN_MSG_ENTER_PIN_ETH, SIGN_MSG_ENTER_PASSPHRASE_ETH,
   SIGN_MSG_CONFIRM_PASSPHRASE_ETH, SIGN_MSG_OTHER_ETH}

Credentials ==
  [mnemonics : BufferContents, passphrase : BufferContents,
   password_single_hash : BufferContents]

\* reject codes passed to comm_reject_request
SIGN_MSG_START == "SIGN_MSG_START"
USER_REJECT_PIN_INPUT == "USER_REJECT_PIN_INPUT"
USER_REJECTED_PASSPHRASE_INPUT == "USER_REJECTED_PASSPHRASE_INPUT"

InitEth ==
  /\ AuthIdle
  /\ CallIdle
  /\ WalletIdle
  /\ flow_active = TRUE
  /\ level_three \in SignMsgLevels
  /\ wallet_credential_data \in Credentials
  /\ input_text \in BufferContents
  /\ rejects = <<>>
  /\ next_event_flag = FALSE
  /\ back_from = "none"

\* comm_reject_request(code, 0): one reject message goes to the host
comm_reject_request(code) == rejects' = Append(rejects, code)

\* reset_flow_level(): the flow levels go back to the main menu, which ends
\* the sign-message flow
reset_flow_level ==
  /\ flow_active' = FALSE
  /\ level_three' = LEVEL_RESET

\* faulty variant: the two VERIFY cases forget next_event_flag
sign_message_controller_b_eth_NoEventFlag ==
  /\ flow_active
  /\ back_from' = level_three
  /\ CASE level_three \in {SIGN_MSG_VERIFY_COIN_ETH,
                           SIGN_MSG_VERIFY_CONTRACT_ADDRESS_ETH} ->
            /\ comm_reject_request(SIGN_MSG_START)
            /\ reset_flow_level
            /\ UNCHANGED next_event_flag
            /\ UNCHANGED <<wallet_credential_data, input_text>>
       [] level_three = SIGN_MSG_ENTER_PIN_ETH ->
            /\ comm_reject_request(USER_REJECT_PIN_INPUT)
            /\ reset_flow_level
            /\ input_text' = Zeroed
            /\ next_event_flag' = TRUE
            /\ UNCHANGED wallet_credential_data
       [] level_three = SIGN_MSG_ENTER_PASSPHRASE_ETH ->
            /\ comm_reject_request(USER_REJECTED_PASSPHRASE_INPUT)
            /\ reset_flow_level
            /\ input_text' = Zeroed
            /\ next_event_flag' = TRUE
            /\ UNCHANGED wallet_credential_data
       [] level_three = SIGN_MSG_CONFIRM_PASSPHRASE_ETH ->
            /\ wallet_credential_data' =
                 [wallet_credential_data EXCEPT !.passphrase = Zeroed]
            /\ level_three' = SIGN_MSG_ENTER_PASSPHRASE_ETH
            /\ UNCHANGED <<flow_active, input_text, rejects, next_event_flag>>
       [] OTHER ->
            UNCHANGED <<flow_active, level_three, wallet_credential_data,
                        input_text, rejects, next_event_flag>>
  /\ UNCHANGED <<authVars, walletVars, callVars>>

\* faulty variant: the CONFIRM_PASSPHRASE case clears the whole record
sign_message_controller_b_eth_ConfirmWipesAll ==
  /\ flow_active
  /\ back_from' = level_three
  /\ CASE level_three \in {SIGN_MSG_VERIFY_COIN_ETH,
                           SIGN_MSG_VERIFY_CONTRACT_ADDRESS_ETH} ->
            /\ comm_reject_request(SIGN_MSG_START)
            /\ reset_flow_level
            /\ next_event_flag' = TRUE
            /\ UNCHANGED <<wallet_credential_data, input_text>>
       [] level_three = SIGN_MSG_ENTER_PIN_ETH ->
            /\ comm_reject_request(USER_REJECT_PIN_INPUT)
            /\ reset_flow_level
            /\ input_text' = Zeroed
            /\ next_event_flag' = TRUE
            /\ UNCHANGED wallet_credential_data
       [] level_three = SIGN_MSG_ENTER_PASSPHRASE_ETH ->
            /\ comm_reject_request(USER_REJECTED_PASSPHRASE_INPUT)
            /\ reset_flow_level
            /\ input_text' = Zeroed
            /\ next_event_flag' = TRUE
            /\ UNCHANGED wallet_credential_data
       [] level_three = SIGN_MSG_CONFIRM_PASSPHRASE_ETH ->
            /\ wallet_credential_data' = CredentialsZeroed
            /\ level_three' = SIGN_MSG_ENTER_PASSPHRASE_ETH
            /\ UNCHANGED <<flow_active, input_text, rejects, next_event_flag>>
       [] OTHER ->
            UNCHANGED <<flow_active, level_three, wallet_credential_data,
                        input_text, rejects, next_event_flag>>
  /\ UNCHANGED <<authVars, walletVars, callVars>>

\* lines 61-98: the switch on flow_level.level_three
sign_message_controller_b_eth ==
  /\ flow_active
  /\ back_from' = level_three
  /\ CASE level_three \in {SIGN_MSG_VERIFY_COIN_ETH,
                           SIGN_MSG_VERIFY_CONTRACT_ADDRESS_ETH} ->
            /\ comm_reject_request(SIGN_MSG_START)
            /\ reset_flow_level
            /\ next_event_flag' = TRUE
            /\ UNCHANGED <<wallet_credential_data, input_text>>
       [] level_three = SIGN_MSG_ENTER_PIN_ETH ->
            /\ comm_reject_request(USER_REJECT_PIN_INPUT)
            /\ reset_flow_level
            /\ input_text' = Zeroed
            /\ next_event_flag' = TRUE
            /\ UNCHANGED wallet_credential_data
       [] level_three = SIGN_MSG_ENTER_PASSPHRASE_ETH ->
            /\ comm_reject_request(USER_REJECTED_PASSPHRASE_INPUT)
            /\ reset_flow_level
            /\ input_text' = Zeroed
            /\ next_event_flag' = TRUE
            /\ UNCHANGED wallet_credential_data
       [] level_three = SIGN_MSG_CONFIRM_PASSPHRASE_ETH ->
            /\ wallet_credential_data' =
                 [wallet_credential_data EXCEPT !.passphrase = Zeroed]
            /\ level_three' = SIGN_MSG_ENTER_PASSPHRASE_ETH
            /\ UNCHANGED <<flow_active, input_text, rejects, next_event_flag>>
       [] OTHER ->
            UNCHANGED <<flow_active, level_three, wallet_credential_data,
                        input_text, rejects, next_event_flag>>
  /\ UNCHANGED <<authVars, walletVars, callVars>>

NextEth == sign_message_controller_b_eth

SpecEth == InitEth /\ [][NextEth]_vars

(***************************************************************************)
(* Wallet checksum.  The serialized fields of a Wallet are modelled by a   *)
(* small number, the 30-bit hash by two bits, and the checksum field by    *)
(* the hash followed by the two tag bits.                                  *)
(***************************************************************************)
MaxContent == 7

\* the low two bits `01` of a checksum mark it as holding a value
CHECKSUM_PRESENT_TAG == 1

TagOf(checksum) == checksum % 4

ChecksumValues == 0..15

\* stands for the first bits of SHA256 over the serialized fields
HashOf(content) == (3 * content + 1) % 4

calculate_checksum(w) == 4 * HashOf(w.content) + CHECKSUM_PRESENT_TAG

\* faulty variant: the stored checksum is compared even when its tag says
\* that it holds no value
verify_checksum_TagIgnored(w) ==
  IF w.null THEN FALSE
  ELSE calculate_checksum(w) = w.checksum

verify_checksum(w) ==
  IF w.null THEN FALSE
  ELSE IF TagOf(w.checksum) # CHECKSUM_PRESENT_TAG THEN TRUE
  ELSE calculate_checksum(w) = w.checksum

Wallets ==
  {NoWallet} \cup
  [null : {FALSE}, content : 0..MaxContent, checksum : ChecksumValues]

InitWallet ==
  /\ AuthIdle
  /\ CallIdle
  /\ EthIdle
  /\ wallet \in Wallets
  /\ wallet_pc = "call"
  /\ checksum_ok = FALSE
  /\ FlagsIdle

VerifyCall ==
  /\ wallet_pc = "call"
  /\ checksum_ok' = verify_checksum(wallet)
  /\ wallet_pc' = "done"
  /\ UNCHANGED <<wallet, authVars, ethVars, callVars>>
  /\ UNCHANGED <<wallet_info, flag_prev, flag_op>>

NextWallet == VerifyCall

SpecWallet == InitWallet /\ [][NextWallet]_vars

(***************************************************************************)
(* The wallet_info flag macros, on a uint8_t.  The C operators are modelled *)
(* bit by bit.                                                             *)
(***************************************************************************)
Bytes == 0..255

BitOf(n, k) == (n \div (2 ^ k)) % 2

\* n & m, n | m and ~m on eight bits
RECURSIVE SumBits(_, _)
SumBits(f, k) == IF k < 0 THEN 0 ELSE f[k] * (2 ^ k) + SumBits(f, k - 1)

BitAnd(n, m) == SumBits([k \in 0..7 |-> BitOf(n, k) * BitOf(m, k)], 7)

BitOr(n, m) ==
  SumBits([k \in 0..7 |-> IF BitOf(n, k) + BitOf(m, k) > 0 THEN 1 ELSE 0], 7)

BitNot(m) == SumBits([k \in 0..7 |-> 1 - BitOf(m, k)], 7)

WALLET_IS_PIN_SET(n) == BitAnd(n, 1)
WALLET_SET_PIN(n) == BitOr(n, 1)
WALLET_UNSET_PIN(n) == BitAnd(n, BitNot(1))
WALLET_IS_PASSPHRASE_SET(n) == BitAnd(n \div 2, 1)
\* faulty variant: the mask also covers the PIN bit
WALLET_SET_PASSPHRASE_WideMask(n) == BitOr(n, 3)

WALLET_SET_PASSPHRASE(n) == BitOr(n, 2)
WALLET_UNSET_PASSPHRASE(n) == BitAnd(n, BitNot(2))
WALLET_IS_ARBITRARY_DATA(n) == BitAnd(n \div 4, 1)
WALLET_SET_ARBITRARY_DATA(n) == BitOr(n, 4)
WALLET_UNSET_ARBITRARY_DATA(n) == BitAnd(n, BitNot(4))

Flags == {"PIN", "PASSPHRASE", "ARBITRARY_DATA"}

IsSet(F, n) ==
  CASE F = "PIN" -> WALLET_IS_PIN_SET(n)
    [] F = "PASSPHRASE" -> WALLET_IS_PASSPHRASE_SET(n)
    [] F = "ARBITRARY_DATA" -> WALLET_IS_ARBITRARY_DATA(n)

SetFlag(F) ==
  /\ flag_prev' = wallet_info
  /\ flag_op' = <<"SET", F>>
  /\ wallet_info' =
       CASE F = "PIN" -> WALLET_SET_PIN(wallet_info)
         [] F = "PASSPHRASE" -> WALLET_SET_PASSPHRASE(wallet_info)
         [] F = "ARBITRARY_DATA" -> WALLET_SET_ARBITRARY_DATA(wallet_info)
  /\ UNCHANGED <<wallet, wallet_pc, checksum_ok, authVars, ethVars, callVars>>

UnsetFlag(F) ==
  /\ flag_prev' = wallet_info
  /\ flag_op' = <<"UNSET", F>>
  /\ wallet_info' =
       CASE F = "PIN" -> WALLET_UNSET_PIN(wallet_info)
         [] F = "PASSPHRASE" -> WALLET_UNSET_PASSPHRASE(wallet_info)
         [] F = "ARBITRARY_DATA" -> WALLET_UNSET_ARBITRARY_DATA(wallet_info)
  /\ UNCHANGED <<wallet, wallet_pc, checksum_ok, authVars, ethVars, callVars>>

InitFlags ==
  /\ AuthIdle
  /\ CallIdle
  /\ EthIdle
  /\ wallet = NoWallet
  /\ wallet_pc = "none"
  /\ checksum_ok = FALSE
  /\ wallet_info \in Bytes
  /\ flag_prev = wallet_info
  /\ flag_op = <<"none", "none">>

NextFlags ==
  \/ \E F \in Flags : SetFlag(F)
  \/ \E F \in Flags : UnsetFlag(F)

SpecFlags == InitFlags /\ [][NextFlags]_vars

(***************************************************************************)
(* The engine handlers called directly, with a null or a valid session     *)
(* data pointer and a null or a valid response pointer.                    *)
(***************************************************************************)
Handlers ==
  {"handle_sign_card_serial", "handle_sign_challenge",
   "handle_auth_card_initiate_query", "handle_auth_card_challenge_query",
   "handle_auth_card_result_query", "handle_auth_card_query"}

Calls ==
  [handler : Handlers, data_null : BOOLEAN, resp_null : BOOLEAN,
   status : FlowStatuses, verified : BOOLEAN]

\* the first test of each handler: TRUE when it returns invalid-arguments
ArgsRejected(c) ==
  IF c.handler = "handle_auth_card_result_query"
  THEN c.data_null /\ ~c.resp_null
  ELSE c.data_null \/ c.resp_null

Outcome(r, f, rq, rs, hw) ==
  [done |-> TRUE, ret |-> r, fault |-> f, read_request |-> rq,
   read_status |-> rs, hardware |-> hw]

ReturnCodes ==
  {MANAGER_TASK_SUCCESS, MANAGER_TASK_INVALID_ARGS, MANAGER_TASK_INVALID_STATE,
   MANAGER_TASK_UNKNOWN_QUERY_REQUEST, MANAGER_TASK_P0_ABORT_OCCURED}

\* a read or write through a null pointer is undefined: the call faults, or
\* it goes on with whatever it read and returns any code
AfterNullAccess(rq, rs) ==
  {Outcome("none", TRUE, rq, rs, FALSE)} \cup
  {Outcome(r, FALSE, TRUE, TRUE, FALSE) : r \in ReturnCodes}

\* the outcomes of one call
CallOutcomes(c) ==
  IF ArgsRejected(c)
  THEN {Outcome(MANAGER_TASK_INVALID_ARGS, FALSE, FALSE, FALSE, FALSE)}
  ELSE IF c.data_null
  THEN \* line 441 reads auth_card_data->query through the null pointer
       AfterNullAccess(FALSE, FALSE)
  ELSE IF c.resp_null
  THEN \* lines 441-483 with a valid session and a null response
       LET o == ResultOutcome(c.status, c.verified, RESPONSE_NONE, "none") IN
         IF o.ret = MANAGER_TASK_INVALID_STATE
         THEN {Outcome(o.ret, FALSE, TRUE, TRUE, FALSE)}
         ELSE AfterNullAccess(TRUE, TRUE)
  ELSE \* both arguments valid: the handler goes on as in the flow
       {Outcome("proceeds", FALSE, TRUE, TRUE, FALSE)}

InitCall ==
  /\ AuthIdle
  /\ EthIdle
  /\ WalletIdle
  /\ call \in Calls
  /\ call_out = NoOutcome

CallHandler ==
  /\ call_out.done = FALSE
  /\ call_out' \in CallOutcomes(call)
  /\ UNCHANGED <<call, authVars, ethVars, walletVars>>

NextCall == CallHandler

SpecCall == InitCall /\ [][NextCall]_vars

(***************************************************************************)
(* Properties.                                                             *)
(***************************************************************************)

\* C1: an initiate request dispatched while the flow status is not INIT
\* returns invalid-state and has no side effect: flow status, session
\* context and response are unchanged, no card-select task is started,
\* nothing is sent and no notice is shown.
C1_InitiateOutsideInitRejected ==
  [][(pc = "dispatch" /\ query.which_request = INITIATE_TAG /\ flow_status # INIT)
       => /\ pc' = "ret_check"
          /\ ret' = MANAGER_TASK_INVALID_STATE
          /\ UNCHANGED <<flow_status, ctx, resp, query, hist>>
          /\ UNCHANGED <<usb_out, notice, nfc_tasks, waits>>]_vars

C1_Witness ==
  /\ pc = "ret_check"
  /\ disp.request = INITIATE_TAG
  /\ disp.status = CHALLENGE_SIGNED
  /\ ret = MANAGER_TASK_INVALID_STATE

\* C2 (as claimed): once a failure flow_complete has been sent, the handler
\* is at its stop test or has returned; it never waits for, decodes or
\* dispatches another host request in that session.
C2_FailedVerificationIsTerminal ==
  failed => pc \in {"done_check", "idle"}

\* C3 (as claimed): after a failure flow_complete has been sent, the flow
\* status of that session does not change any more and nothing but a
\* failure flow_complete is sent.
C3_NoProgressAfterFailure ==
  [][(failed /\ pc # "idle")
       => /\ flow_status' = flow_status
          /\ (usb_out' = usb_out
                \/ (resp = FLOW_COMPLETE_TAG /\ notice = "failed"))]_vars

\* C4 (as claimed): once the wait for a host message has returned an
\* abort/timeout, the handler only evaluates the rest of that loop pass
\* and returns; no request is dispatched again.
C4_AbortAtHostWaitEndsLoop ==
  p0_seen => pc \in {"decode", "while_check", "idle"}

\* C5: an abort/timeout observed at a hardware wait makes the handler
\* return abort-occurred with the flow status as it was when the wait
\* began (USER_CONFIRMED in the serial round, SERIAL_SIGNED in the challenge
\* round), without a response; card_auth_handler then returns without
\* sending anything and without another wait.
C5_AbortAtHardwareWait ==
  [][/\ (pc = "nfc_ret" /\ nfc_status.p0_flag)
          => /\ flow_status = (IF round = "serial" THEN USER_CONFIRMED
                               ELSE SERIAL_SIGNED)
             /\ resp = RESPONSE_NONE
             /\ pc' = "ret_check"
             /\ ret' = MANAGER_TASK_P0_ABORT_OCCURED
             /\ UNCHANGED <<flow_status, resp, usb_out, waits>>
     /\ (pc = "ret_check" /\ ret = MANAGER_TASK_P0_ABORT_OCCURED)
          => /\ pc' = "idle"
             /\ UNCHANGED <<flow_status, resp, usb_out, waits, nfc_tasks>>]_vars

C5_Witness ==
  /\ pc = "idle"
  /\ inputs = <<INITIATE_TAG, "p0">>
  /\ ret = MANAGER_TASK_P0_ABORT_OCCURED
  /\ flow_status = USER_CONFIRMED
  /\ usb_out = <<>>

\* C6: on the happy path (initiate with pairing required, a card in both
\* hardware rounds, challenge, result{verified:true}, every response
\* encoded) the flow status goes through INIT, USER_CONFIRMED,
\* SERIAL_SIGNED, CHALLENGE_SIGNED, PAIRING_DONE in that order, exactly the
\* three responses serial_signature, challenge_signature, flow_complete are
\* sent in that order, and the handler returns at its stop test.
HappyPath == <<INITIATE_TAG, "card", CHALLENGE_TAG, "card", "result_true">>

C6_HappyPath ==
  (inputs = HappyPath /\ ctx.pair_card_required /\ pc \in {"done_check", "idle"})
    => /\ hist = <<INIT, USER_CONFIRMED, SERIAL_SIGNED, CHALLENGE_SIGNED,
                   PAIRING_DONE>>
       /\ usb_out = <<SERIAL_SIGNATURE_TAG, CHALLENGE_SIGNATURE_TAG,
                      FLOW_COMPLETE_TAG>>
       /\ flow_status = PAIRING_DONE
       /\ notice = "success"
       /\ (pc = "idle" => exit = "pairing_done")

C6_Witness ==
  /\ inputs = HappyPath
  /\ ctx.pair_card_required
  /\ pc = "idle"
  /\ exit = "pairing_done"

\* C7: a result{verified:false} request handled in SERIAL_SIGNED or in
\* CHALLENGE_SIGNED returns success, produces a flow_complete response and
\* leaves the flow status as it was.
C7_FailedResultKeepsStatus ==
  [][(/\ pc = "dispatch"
      /\ query.which_request = RESULT_TAG
      /\ query.verified = FALSE
      /\ flow_status \in {SERIAL_SIGNED, CHALLENGE_SIGNED})
       => /\ pc' = "ret_check"
          /\ ret' = MANAGER_TASK_SUCCESS
          /\ resp' = FLOW_COMPLETE_TAG
          /\ flow_status' = flow_status
          /\ hist' = hist]_vars

C7_Witness ==
  /\ pc = "ret_check"
  /\ disp = [request |-> RESULT_TAG, verified |-> FALSE, status |-> CHALLENGE_SIGNED]
  /\ ret = MANAGER_TASK_SUCCESS
  /\ resp = FLOW_COMPLETE_TAG
  /\ flow_status = CHALLENGE_SIGNED

\* C8: a result request is accepted exactly for (SERIAL_SIGNED, false),
\* (CHALLENGE_SIGNED, false) and (CHALLENGE_SIGNED, true); in every other
\* combination of flow status and verified it returns invalid-state,
\* produces no response and leaves the flow status unchanged.
ResultAccepted(status, verified) ==
  \/ status = SERIAL_SIGNED /\ ~verified
  \/ status = CHALLENGE_SIGNED

C8_ResultAcceptedOnlyInOrder ==
  [][(pc = "dispatch" /\ query.which_request = RESULT_TAG)
       => /\ pc' = "ret_check"
          /\ IF ResultAccepted(flow_status, query.verified)
             THEN /\ ret' = MANAGER_TASK_SUCCESS
                  /\ resp' = FLOW_COMPLETE_TAG
             ELSE /\ ret' = MANAGER_TASK_INVALID_STATE
                  /\ UNCHANGED <<flow_status, resp, usb_out, notice, hist>>]_vars

C8_Witness ==
  /\ pc = "ret_check"
  /\ disp = [request |-> RESULT_TAG, verified |-> TRUE, status |-> SERIAL_SIGNED]
  /\ ret = MANAGER_TASK_INVALID_STATE
  /\ resp = RESPONSE_NONE
  /\ flow_status = SERIAL_SIGNED

\* C9: a result{verified:true} request handled in CHALLENGE_SIGNED sets
\* the flow status to PAIRING_DONE and produces one flow_complete
\* response, whether or not pairing was requested; the response is sent
\* at most once and the handler then returns at its stop test without
\* waiting for another host message.
C9_SuccessEndsSession ==
  [][/\ (/\ pc = "dispatch"
         /\ query.which_request = RESULT_TAG
         /\ query.verified
         /\ flow_status = CHALLENGE_SIGNED)
          => /\ pc' = "ret_check"
             /\ ret' = MANAGER_TASK_SUCCESS
             /\ flow_status' = PAIRING_DONE
             /\ resp' = FLOW_COMPLETE_TAG
             /\ usb_out' = usb_out
     /\ (pc = "send" /\ flow_status = PAIRING_DONE)
          => /\ resp = FLOW_COMPLETE_TAG
             /\ usb_out' \in {usb_out, Append(usb_out, FLOW_COMPLETE_TAG)}
             /\ resp' = RESPONSE_NONE
     /\ (pc = "done_check" /\ flow_status = PAIRING_DONE)
          => /\ pc' = "idle"
             /\ exit' = "pairing_done"
             /\ UNCHANGED <<usb_out, waits, flow_status>>
     /\ (flow_status = PAIRING_DONE /\ pc # "idle")
          => pc' \notin {"usb_wait", "decode", "while_check", "dispatch"}]_vars

C9_Witness ==
  /\ pc = "idle"
  /\ exit = "pairing_done"
  /\ flow_status = PAIRING_DONE
  /\ ~ctx.pair_card_required
  /\ disp = [request |-> RESULT_TAG, verified |-> TRUE, status |-> CHALLENGE_SIGNED]
  /\ Len(usb_out) = 3

\* C10: a challenge request is accepted only when the flow status is
\* SERIAL_SIGNED; in every other status it returns invalid-state before
\* any hardware contact, with no response and the flow status unchanged,
\* so a challenge that follows a completed challenge round is rejected.
ChallengeRoundStarted ==
  \E i \in 1..(Len(inputs) - 1) :
     inputs[i] = CHALLENGE_TAG /\ inputs[i + 1] \in {"card", "p0"}

C10_ChallengeOnlyAfterSerial ==
  [][/\ (pc = "dispatch" /\ query.which_request = CHALLENGE_TAG)
          => IF flow_status = SERIAL_SIGNED
             THEN /\ pc' = "nfc_wait"
                  /\ nfc_tasks' = nfc_tasks + 1
             ELSE /\ pc' = "ret_check"
                  /\ ret' = MANAGER_TASK_INVALID_STATE
                  /\ UNCHANGED <<flow_status, resp, usb_out, nfc_tasks, hist, ctx>>
     /\ (pc = "dispatch" /\ query.which_request = CHALLENGE_TAG
           /\ ChallengeRoundStarted)
          => /\ pc' = "ret_check"
             /\ ret' = MANAGER_TASK_INVALID_STATE]_vars

C10_Witness ==
  /\ pc = "ret_check"
  /\ disp.request = CHALLENGE_TAG
  /\ disp.status = CHALLENGE_SIGNED
  /\ ret = MANAGER_TASK_INVALID_STATE
  /\ nfc_tasks = 2
  /\ inputs = <<INITIATE_TAG, "card", CHALLENGE_TAG, "card", CHALLENGE_TAG>>

\* C11: a serial_signature response is produced exactly when the serial
\* round's hardware wait ended with a card event, and in that step the flow
\* status becomes SERIAL_SIGNED; a challenge_signature response exactly when
\* the challenge round's wait ended with a card event, and in that step the
\* flow status becomes CHALLENGE_SIGNED; whenever either response is handed
\* to the transport the flow status equals the corresponding signed state.
Produced(tag) == resp' = tag /\ resp # tag

CardEventEnded(r) == pc = "nfc_ret" /\ round = r /\ nfc_status.nfc_flag

Sent(tag) == usb_out' = Append(usb_out, tag)

C11_SignatureResponses ==
  [][/\ Produced(SERIAL_SIGNATURE_TAG) <=> CardEventEnded("serial")
     /\ Produced(SERIAL_SIGNATURE_TAG) => flow_status' = SERIAL_SIGNED
     /\ Produced(CHALLENGE_SIGNATURE_TAG) <=> CardEventEnded("challenge")
     /\ Produced(CHALLENGE_SIGNATURE_TAG) => flow_status' = CHALLENGE_SIGNED
     /\ Sent(SERIAL_SIGNATURE_TAG) => flow_status = SERIAL_SIGNED
     /\ Sent(CHALLENGE_SIGNATURE_TAG) => flow_status = CHALLENGE_SIGNED]_vars

C11_Witness ==
  /\ pc = "done_check"
  /\ usb_out = <<SERIAL_SIGNATURE_TAG, CHALLENGE_SIGNATURE_TAG>>
  /\ flow_status = CHALLENGE_SIGNED
  /\ hist = <<INIT, USER_CONFIRMED, SERIAL_SIGNED, CHALLENGE_SIGNED>>

\* C12: responses are sent in the order their state transitions completed:
\* a produced response is handed to the transport, and the response buffer
\* cleared, before the driver blocks for or dispatches the next request; the
\* transport receives one response per send and nothing otherwise;
\* serial_signature is sent at most once and first, challenge_signature at
\* most once and only after serial_signature.
SentInOrder(out) ==
  \A i \in 1..Len(out) :
    /\ out[i] = SERIAL_SIGNATURE_TAG => i = 1
    /\ out[i] = CHALLENGE_SIGNATURE_TAG =>
         /\ i > 1
         /\ out[1] = SERIAL_SIGNATURE_TAG
         /\ \A j \in 1..Len(out) : out[j] = CHALLENGE_SIGNATURE_TAG => j = i

C12_ResponsesSentInOrder ==
  [][/\ (pc = "send" /\ resp # RESPONSE_NONE) =>
          usb_out' = Append(usb_out, resp) /\ resp' = RESPONSE_NONE
     /\ pc' \in {"usb_wait", "dispatch"} => resp' = RESPONSE_NONE
     /\ usb_out' # usb_out => (pc = "send" \/ usb_out' = <<>>)
     /\ SentInOrder(usb_out')]_vars

\* C13: when the dispatch of a request or the decoding of the next host
\* message returns a non-success code, card_auth_handler clears the pending
\* USB event and returns: no response is sent for that request, no wait or
\* card task is started again, and the flow status, the stored request and
\* the session context stay as they were when the error was returned.
ErrorCodes ==
  {MANAGER_TASK_INVALID_ARGS, MANAGER_TASK_INVALID_STATE,
   MANAGER_TASK_DECODING_FAILED, MANAGER_TASK_UNKNOWN_QUERY_REQUEST,
   MANAGER_TASK_P0_ABORT_OCCURED}

SilentReturn ==
  /\ pc' = "idle"
  /\ usb_event_pending' = FALSE
  /\ UNCHANGED <<usb_out, flow_status, nfc_tasks, waits, query, ctx, resp>>

C13_ErrorEndsSessionSilently ==
  [][/\ (pc = "ret_check" /\ ret # MANAGER_TASK_SUCCESS) =>
          ret \in ErrorCodes /\ SilentReturn
     /\ (pc # "ret_check" /\ pc' = "ret_check" /\
            ret' # MANAGER_TASK_SUCCESS) =>
          UNCHANGED <<usb_out, resp>>
     /\ (pc = "decode" /\ decode_ret' # MANAGER_TASK_SUCCESS) =>
          decode_ret' \in ErrorCodes /\ SilentReturn]_vars

C13_Witness ==
  /\ pc = "idle"
  /\ exit = "dispatch_error"
  /\ ret = MANAGER_TASK_INVALID_STATE
  /\ flow_status = SERIAL_SIGNED
  /\ usb_out = <<SERIAL_SIGNATURE_TAG>>
  /\ usb_event_pending = FALSE

\* C14: called with a USB event whose flag is not set,
\* decode_and_verify_auth_card_query_if_usb_evt returns success, which is none
\* of the rejection codes, and leaves the caller's query object unchanged.
C14_NoUsbEventIsNoOp ==
  [][(pc = "decode" /\ evt_status.usb_flag = FALSE) =>
        /\ decode_ret' = MANAGER_TASK_SUCCESS
        /\ decode_ret' \notin ErrorCodes
        /\ query' = query
        /\ pc' = "while_check"]_vars

C14_Witness ==
  /\ pc = "while_check"
  /\ evt_status.usb_flag = FALSE
  /\ evt_status.p0_flag
  /\ decode_ret = MANAGER_TASK_SUCCESS
  /\ query = ChallengeQuery

\* C15: with the USB event flag set, the call returns decode-failure when
\* the bytes do not parse and unknown-request when the parsed message is not
\* of the card-authentication family, leaving the caller's query unchanged
\* in both cases; otherwise it overwrites the caller's query with the decoded
\* one and returns success.
C15_DecodeRejectsKeepQuery ==
  [][(pc = "decode" /\ evt_status.usb_flag) =>
        IF evt_status.msg.parses = FALSE
        THEN decode_ret' = MANAGER_TASK_DECODING_FAILED /\ query' = query
        ELSE IF evt_status.msg.which_request # MANAGER_QUERY_AUTH_CARD_TAG
        THEN /\ decode_ret' = MANAGER_TASK_UNKNOWN_QUERY_REQUEST
             /\ query' = query
        ELSE /\ decode_ret' = MANAGER_TASK_SUCCESS
             /\ query' = evt_status.msg.auth_card]_vars

C15_Witness ==
  /\ pc = "idle"
  /\ exit = "decode_error"
  /\ evt_status.usb_flag
  /\ evt_status.msg.parses
  /\ decode_ret = MANAGER_TASK_UNKNOWN_QUERY_REQUEST
  /\ query.which_request = INITIATE_TAG
  /\ flow_status = SERIAL_SIGNED

\* C16: send_auth_card_response returns invalid-arguments when the response
\* is null or its discriminant is zero, and encode-failure when the encoder
\* fails, handing nothing to the outbound transport in either case; on
\* success it hands the encoded response to the transport exactly once.
C16_SendContract ==
  [][pc = "send_call" =>
       IF resp \in {NULL_RESPONSE, RESPONSE_NONE}
       THEN send_ret' = MANAGER_TASK_INVALID_ARGS /\ usb_out' = usb_out
       ELSE IF inputs' = <<"encode_failed">>
       THEN send_ret' = MANAGER_TASK_ENCODING_FAILED /\ usb_out' = usb_out
       ELSE /\ send_ret' = MANAGER_TASK_SUCCESS
            /\ usb_out' = Append(usb_out, resp)]_vars

C16_Witness ==
  /\ pc = "send_done"
  /\ resp = CHALLENGE_SIGNATURE_TAG
  /\ inputs = <<"encode_failed">>
  /\ send_ret = MANAGER_TASK_ENCODING_FAILED
  /\ usb_out = <<SERIAL_SIGNATURE_TAG>>

\* C17: an initiate accepted in INIT records in the session context
\* acceptable_cards = the encoding of card_index when the request carries a
\* card index and the accept-all value otherwise, and pair_card_required =
\* TRUE exactly when the request carries pair_card and it is true; the flow
\* status is USER_CONFIRMED when the card is first waited for; and no later
\* step of the session changes acceptable_cards or pair_card_required.
InitiateAccepted ==
  pc = "dispatch" /\ query.which_request = INITIATE_TAG /\ flow_status = INIT

C17_InitiateRecordsContext ==
  [][/\ InitiateAccepted =>
          /\ ctx'.acceptable_cards =
               IF query.has_card_index THEN encode_card_number(query.card_index)
               ELSE ACCEPTABLE_CARDS_ALL
          /\ ctx'.pair_card_required = (query.has_pair_card /\ query.pair_card)
          /\ flow_status' = USER_CONFIRMED
          /\ nfc_tasks = 0 /\ nfc_tasks' = 1
          /\ pc' = "nfc_wait"
     /\ (pc # "idle" /\ ~InitiateAccepted) =>
          /\ ctx'.acceptable_cards = ctx.acceptable_cards
          /\ ctx'.pair_card_required = ctx.pair_card_required]_vars

C17_Witness ==
  /\ pc = "nfc_wait"
  /\ round = "serial"
  /\ flow_status = USER_CONFIRMED
  /\ query = MkQuery(INITIATE_TAG, TRUE, 2, TRUE, TRUE, FALSE)
  /\ ctx.acceptable_cards = 2
  /\ ctx.heading = Text("tap_card", 2)
  /\ ctx.pair_card_required = TRUE

\* C18: every invocation of card_auth_handler that carries an initiate
\* request sets the flow status to INIT before dispatching it, so the
\* initiate is accepted and never rejected with invalid-state, whatever
\* status the previous session left in the flow-status cell.
C18_FreshInitiateAlwaysAccepted ==
  [][/\ (pc = "idle" /\ sessions' = sessions + 1 /\
            inputs' = <<INITIATE_TAG>>) =>
          /\ flow_status' = INIT
          /\ query'.which_request = INITIATE_TAG
          /\ pc' = "dispatch"
     /\ (pc = "dispatch" /\ inputs = <<INITIATE_TAG>>) =>
          /\ flow_status' = USER_CONFIRMED
          /\ pc' = "nfc_wait"
          /\ ret' # MANAGER_TASK_INVALID_STATE \/ ret' = ret]_vars

C18_Witness ==
  /\ sessions = 2
  /\ entry_status = PAIRING_DONE
  /\ inputs = <<INITIATE_TAG>>
  /\ pc = "nfc_wait"
  /\ flow_status = USER_CONFIRMED

\* C19: on every reject path of the ETH sign-message back controller (a back
\* event in SIGN_MSG_VERIFY_COIN_ETH, SIGN_MSG_VERIFY_CONTRACT_ADDRESS_ETH,
\* SIGN_MSG_ENTER_PIN_ETH or SIGN_MSG_ENTER_PASSPHRASE_ETH) a reject is sent,
\* the flow is reset, and the credential record (mnemonics, passphrase,
\* single-round password hash) is all zero when the controller returns.
RejectLevels ==
  {SIGN_MSG_VERIFY_COIN_ETH, SIGN_MSG_VERIFY_CONTRACT_ADDRESS_ETH,
   SIGN_MSG_ENTER_PIN_ETH, SIGN_MSG_ENTER_PASSPHRASE_ETH}

FlagBit(F) ==
  CASE F = "PIN" -> 0 [] F = "PASSPHRASE" -> 1 [] F = "ARBITRARY_DATA" -> 2

C21_FlagsIndependent ==
  [][\A F \in Flags :
       (flag_op'[2] = F /\ flag_op'[1] \in {"SET", "UNSET"}) =>
         /\ wallet_info' \in Bytes
         /\ IsSet(F, wallet_info') = (IF flag_op'[1] = "SET" THEN 1 ELSE 0)
         /\ flag_op' = flag_op => wallet_info' = wallet_info
         /\ \A k \in (0..7) \ {FlagBit(F)} :
              BitOf(wallet_info', k) = BitOf(wallet_info, k)
         /\ \A G \in Flags \ {F} :
              IsSet(G, wallet_info') = IsSet(G, wallet_info)]_vars

C21_Witness ==
  /\ flag_op = <<"UNSET", "PASSPHRASE">>
  /\ flag_prev = 255
  /\ wallet_info = 253
  /\ WALLET_IS_PIN_SET(wallet_info) = 1
  /\ WALLET_IS_PASSPHRASE_SET(wallet_info) = 0

\* C22: every session terminates: when every wait eventually returns with
\* its event or with an abort/timeout and the host sends finitely many
\* messages, every invocation of card_auth_handler eventually returns, also
\* when the waits keep ending in inactivity timeouts.
C22_EverySessionReturns == (pc # "idle") ~> (pc = "idle")

\* C23: within one session the flow status only moves forward along INIT,
\* USER_CONFIRMED, SERIAL_SIGNED, CHALLENGE_SIGNED, PAIRING_DONE: every
\* change of the flow-status cell after the reset at entry advances it by
\* exactly one position; it never moves backward and never skips a state.
StatusOrder ==
  <<INIT, USER_CONFIRMED, SERIAL_SIGNED, CHALLENGE_SIGNED, PAIRING_DONE>>

PositionOf(status) == CHOOSE i \in 1..Len(StatusOrder) : StatusOrder[i] = status

C23_StatusMovesForwardByOne ==
  [][(pc # "idle" /\ flow_status' # flow_status) =>
        PositionOf(flow_status') = PositionOf(flow_status) + 1]_vars

C23_Witness ==
  /\ pc = "idle"
  /\ exit = "pairing_done"
  /\ hist = StatusOrder
  /\ inputs = <<INITIATE_TAG, "card", CHALLENGE_TAG, "card", "result_true">>

\* C24: PAIRING_DONE is gated by the full protocol: whenever the flow status
\* is PAIRING_DONE, the session that set it observed a card event in the
\* serial round and in the challenge round, produced a serial_signature and
\* then a challenge_signature response, and entered PAIRING_DONE by a
\* result{verified:true} request dispatched in CHALLENGE_SIGNED.
CountOf(x, log) == Len(SelectSeq(log, LAMBDA y : y = x))

C24_PairingDoneGated ==
  (flow_status = PAIRING_DONE /\ exit # "ignored") =>
    /\ hist = StatusOrder
    /\ disp = [request |-> RESULT_TAG, verified |-> TRUE,
               status |-> CHALLENGE_SIGNED]
    /\ nfc_tasks = 2
    /\ CountOf("card", inputs) = 2
    /\ Len(usb_out) + CountOf("encode_failed", inputs) +
         (IF resp = RESPONSE_NONE THEN 0 ELSE 1) >= 3
    /\ CountOf("encode_failed", inputs) = 0 =>
         \E i, j \in 1..Len(usb_out) :
           /\ i < j
           /\ usb_out[i] = SERIAL_SIGNATURE_TAG
           /\ usb_out[j] = CHALLENGE_SIGNATURE_TAG

C24_Witness ==
  /\ flow_status = PAIRING_DONE
  /\ pc = "send"
  /\ resp = FLOW_COMPLETE_TAG
  /\ notice = "success"
  /\ usb_out = <<SERIAL_SIGNATURE_TAG, CHALLENGE_SIGNATURE_TAG>>

\* C25: when sending a produced response fails, card_auth_handler stops the
\* loop instead of waiting for the next host request: the driver blocks for
\* a host message only after a successful send, so in SERIAL_SIGNED or
\* CHALLENGE_SIGNED only when the response for the transition into that
\* status was handed to the transport.
InTransport(tag) == \E i \in 1..Len(usb_out) : usb_out[i] = tag

C25_FailedSendStopsLoop ==
  pc = "usb_wait" =>
    /\ send_ret = MANAGER_TASK_SUCCESS
    /\ flow_status = SERIAL_SIGNED => InTransport(SERIAL_SIGNATURE_TAG)
    /\ flow_status = CHALLENGE_SIGNED => InTransport(CHALLENGE_SIGNATURE_TAG)

\* C26: card_auth_handler invoked with a first request that is not an
\* initiate (challenge, result or unset) returns at once and changes
\* nothing: the flow status stays as it was (it is not reset to INIT), no
\* response is sent, no card-select task is started, no event is waited for.
C26_NonInitiateIgnored ==
  [][(pc = "idle" /\ sessions' = sessions + 1 /\
        inputs' # <<INITIATE_TAG>>) =>
       /\ pc' = "idle"
       /\ inputs'[1] \in {CHALLENGE_TAG, "result_true", "result_false",
                          REQUEST_NONE}
       /\ UNCHANGED <<flow_status, usb_out, resp, nfc_tasks, waits, round,
                      query, ctx, evt_status, nfc_status, notice, hist>>]_vars

C26_Witness ==
  /\ pc = "idle"
  /\ exit = "ignored"
  /\ inputs = <<CHALLENGE_TAG>>
  /\ sessions = 2
  /\ entry_status = PAIRING_DONE
  /\ flow_status = PAIRING_DONE

\* C27: in the ETH sign-message back controller one back event sends a
\* reject if and only if it also resets the flow level and sets
\* next_event_flag, and it sends at most one reject; this happens exactly in
\* SIGN_MSG_VERIFY_COIN_ETH, SIGN_MSG_VERIFY_CONTRACT_ADDRESS_ETH,
\* SIGN_MSG_ENTER_PIN_ETH and SIGN_MSG_ENTER_PASSPHRASE_ETH; in every other
\* state except SIGN_MSG_CONFIRM_PASSPHRASE_ETH the controller changes
\* nothing.
BackEvent == flow_active /\ back_from' = level_three

C27_RejectIffReset ==
  [][BackEvent =>
       LET sent == Len(rejects') - Len(rejects) IN
         /\ sent \in {0, 1}
         /\ sent = 1 => rejects' = Append(rejects, rejects'[Len(rejects')])
         /\ sent = 1 <=> (flow_active' = FALSE /\ level_three' = LEVEL_RESET)
         /\ sent = 1 <=> (next_event_flag' = TRUE)
         /\ sent = 1 <=> level_three \in RejectLevels
         /\ level_three \notin
              (RejectLevels \cup {SIGN_MSG_CONFIRM_PASSPHRASE_ETH}) =>
              UNCHANGED <<flow_active, level_three, wallet_credential_data,
                          input_text, rejects, next_event_flag>>]_vars

C27_Witness ==
  /\ back_from = SIGN_MSG_VERIFY_CONTRACT_ADDRESS_ETH
  /\ rejects = <<SIGN_MSG_START>>
  /\ flow_active = FALSE
  /\ level_three = LEVEL_RESET
  /\ next_event_flag = TRUE

\* C28: a back event in SIGN_MSG_CONFIRM_PASSPHRASE_ETH zeroes the stored
\* passphrase and moves the flow back to SIGN_MSG_ENTER_PASSPHRASE_ETH; it
\* sends no reject, does not reset the flow level, and leaves the mnemonics
\* and the single-round password hash as they were; a second back event
\* from there rejects the request and resets the flow.
C28_ConfirmPassphraseGoesBack ==
  [][/\ (BackEvent /\ level_three = SIGN_MSG_CONFIRM_PASSPHRASE_ETH) =>
          /\ wallet_credential_data'.passphrase = Zeroed
          /\ level_three' = SIGN_MSG_ENTER_PASSPHRASE_ETH
          /\ rejects' = rejects
          /\ flow_active' = TRUE
          /\ wallet_credential_data'.mnemonics =
               wallet_credential_data.mnemonics
          /\ wallet_credential_data'.password_single_hash =
               wallet_credential_data.password_single_hash
          /\ UNCHANGED <<input_text, next_event_flag>>
     /\ (BackEvent /\ back_from = SIGN_MSG_CONFIRM_PASSPHRASE_ETH) =>
          /\ level_three = SIGN_MSG_ENTER_PASSPHRASE_ETH
          /\ rejects' = Append(rejects, USER_REJECTED_PASSPHRASE_INPUT)
          /\ flow_active' = FALSE
          /\ level_three' = LEVEL_RESET]_vars

C28_Witness ==
  /\ back_from = SIGN_MSG_CONFIRM_PASSPHRASE_ETH
  /\ level_three = SIGN_MSG_ENTER_PASSPHRASE_ETH
  /\ flow_active = TRUE
  /\ rejects = <<>>
  /\ wallet_credential_data =
       [mnemonics |-> Filled, passphrase |-> Zeroed,
        password_single_hash |-> Filled]

\* C29: every engine handler returns invalid-arguments whenever its session
\* data argument or its response argument is null, before it reads the
\* request or the flow status and before it touches hardware.
C29_NullArgumentsRejected ==
  (call_out.done /\ (call.data_null \/ call.resp_null)) =>
    /\ call_out.fault = FALSE
    /\ call_out.ret = MANAGER_TASK_INVALID_ARGS
    /\ call_out.read_request = FALSE
    /\ call_out.read_status = FALSE
    /\ call_out.hardware = FALSE

====
